---- MODULE Spec2Model ----
(***************************************************************************)
(* Model of src/main.ts: the synchronous helpers formatString,             *)
(* filterByRating, concatenateArrays, getMostExpensiveProduct and          *)
(* getDayType, each applied once to an input drawn from a bounded set, and *)
(* the asynchronous squareAsync, run on a JavaScript event loop with a     *)
(* microtask queue and timers.                                             *)
(***************************************************************************)
EXTENDS Integers, Sequences, FiniteSets, TLC

VARIABLES
    pc,          \* synchronous call: "ready" before the call, "done" after, "off" when unused
    arg,         \* synchronous call: the function called and its arguments
    heap,        \* synchronous call: array objects by reference (1 = the caller's array)
    ret,         \* synchronous call: the returned value
    phase,       \* squareAsync call i: "idle" or "returned"
    nArg,        \* squareAsync call i: its argument n
    threw,       \* squareAsync call i: an exception reached the caller synchronously
    inner,       \* squareAsync call i: the promise made by `new Promise`
    outer,       \* squareAsync call i: the promise the async function returns
    reaction,    \* squareAsync call i: outer's reaction is registered on inner
    timer,       \* squareAsync call i: "none", "scheduled" or "fired"
    nTimers,     \* squareAsync call i: number of setTimeout calls made
    microtasks   \* the event loop's microtask queue (FIFO)

syncVars == <<pc, arg, heap, ret>>
asyncVars == <<phase, nArg, threw, inner, outer, reaction, timer, nTimers, microtasks>>
vars == <<pc, arg, heap, ret, phase, nArg, threw, inner, outer, reaction, timer, nTimers, microtasks>>

----
\* Bounds of the model.

\* longest string, items array and products array
MaxLen == 3
\* longest single array passed to concatenateArrays
MaxArrLen == 2
\* largest number of arrays passed to concatenateArrays
MaxArgs == 3
\* number of squareAsync calls
MaxCalls == 2
\* squareAsync arguments range over -MaxAbs..MaxAbs
MaxAbs == 2
\* getDayType inputs range over 0..MaxDayInput (one value beyond the enumeration)
MaxDayInput == 7

SeqsUpTo(S, k) == UNION {[1..m -> S] : m \in 0..k}

----
\* formatString (src/main.ts:1-7).  A string is a sequence of characters.

Alphabet == {"a", "B", "1", "ß"}
Flags == {"true", "false", "undefined"}

\* String.prototype.toUpperCase on one character ("ß" has the two-character upper case "SS")
upperChar(c) ==
    CASE c = "a" -> <<"A">>
      [] c = "B" -> <<"B">>
      [] c = "ß" -> <<"S", "S">>
      [] OTHER   -> <<c>>

\* String.prototype.toLowerCase on one character
lowerChar(c) ==
    CASE c = "B" -> <<"b">>
      [] OTHER   -> <<c>>

RECURSIVE toUpperCase(_)
toUpperCase(s) ==
    IF s = <<>> THEN <<>> ELSE upperChar(Head(s)) \o toUpperCase(Tail(s))

RECURSIVE toLowerCase(_)
toLowerCase(s) ==
    IF s = <<>> THEN <<>> ELSE lowerChar(Head(s)) \o toLowerCase(Tail(s))

truthy_notFalse(flag) == flag # "false"

\* JavaScript truthiness of an optional boolean
truthy(flag) == flag = "true"

formatString(input, toUpper) ==
    IF truthy(toUpper) THEN toUpperCase(input) ELSE toLowerCase(input)

----
\* filterByRating (src/main.ts:9-13).

Titles == {"A", "B"}
Ratings == {3, 4, 5}
Items == [title : Titles, rating : Ratings]

ratingPredicate_strict(item) == item.rating > 4

ratingPredicate(item) == item.rating >= 4

\* Array.prototype.filter: visit the indices in ascending order, append the kept elements
RECURSIVE filterFrom(_, _, _)
filterFrom(items, k, kept) ==
    IF k > Len(items) THEN kept
    ELSE filterFrom(items, k + 1,
                    IF ratingPredicate(items[k]) THEN Append(kept, items[k]) ELSE kept)

\* the heap after items.filter(...): one new array object, the argument untouched
filterByRating(h, items) == Append(h, filterFrom(h[items], 1, <<>>))

----
\* concatenateArrays (src/main.ts:15-17).

Elems == {1, 2}
Arrays == SeqsUpTo(Elems, MaxArrLen)

\* Array.prototype.concat with one array argument
concat_swapped(acc, curr) == curr \o acc

concat(acc, curr) == acc \o curr

\* Array.prototype.reduce with the initial value []
RECURSIVE reduceConcat(_, _, _)
reduceConcat(arrays, k, acc) ==
    IF k > Len(arrays) THEN acc
    ELSE reduceConcat(arrays, k + 1, concat(acc, arrays[k]))

concatenateArrays(arrays) == reduceConcat(arrays, 1, <<>>)

----
\* getMostExpensiveProduct (src/main.ts:53-66).  A product object is identified
\* by its index in the array; the result is that index, or null.

Names == {"A", "B", "C"}
Prices == {10, 20}
Products == [name : Names, price : Prices]

null == [kind |-> "null"]
ref(k) == [kind |-> "ref", idx |-> k]

\* the reducer callback: prev.price > current.price ? prev : current
pickProduct_keepOnTie(products, prev, current) ==
    IF products[prev].price >= products[current].price THEN prev ELSE current

pickProduct(products, prev, current) ==
    IF products[prev].price > products[current].price THEN prev ELSE current

\* Array.prototype.reduce without an initial value: starts from element 1
RECURSIVE reduceProducts(_, _, _)
reduceProducts(products, k, prev) ==
    IF k > Len(products) THEN prev
    ELSE reduceProducts(products, k + 1, pickProduct(products, prev, k))

getMostExpensiveProduct_noEmptyCheck(products) ==
    IF Len(products) = 0 THEN [kind |-> "TypeError"]
    ELSE ref(reduceProducts(products, 2, 1))

getMostExpensiveProduct(products) ==
    IF Len(products) = 0 THEN null
    ELSE ref(reduceProducts(products, 2, 1))

----
\* enum Day and getDayType (src/main.ts:68-92).

Monday == 0
Tuesday == 1
Wednesday == 2
Thursday == 3
Friday == 4
Saturday == 5
Sunday == 6
Day == {Monday, Tuesday, Wednesday, Thursday, Friday, Saturday, Sunday}

getDayType_fridayWeekend(day) ==
    CASE day \in {Monday, Tuesday, Wednesday, Thursday} -> "Weekday"
      [] day \in {Friday, Saturday, Sunday} -> "Weekend"
      [] OTHER -> "Invalid day"

getDayType(day) ==
    CASE day \in {Monday, Tuesday, Wednesday, Thursday, Friday} -> "Weekday"
      [] day \in {Saturday, Sunday} -> "Weekend"
      [] OTHER -> "Invalid day"

----
\* The synchronous calls: one input, one call.

SyncInputs ==
    {[fn |-> "formatString", input |-> s, toUpper |-> f] :
        s \in SeqsUpTo(Alphabet, MaxLen), f \in Flags}
    \cup {[fn |-> "filterByRating", items |-> xs] : xs \in SeqsUpTo(Items, MaxLen)}
    \cup {[fn |-> "concatenateArrays", arrays |-> as] : as \in SeqsUpTo(Arrays, MaxArgs)}
    \cup {[fn |-> "getMostExpensiveProduct", products |-> ps] :
            ps \in SeqsUpTo(Products, MaxLen)}
    \cup {[fn |-> "getDayType", day |-> d] : d \in 0..MaxDayInput}

NoValue == [kind |-> "none"]

\* the heap the caller built before the call: the items array is object 1
HeapOf(a) == IF a.fn = "filterByRating" THEN <<a.items>> ELSE <<>>

CallFormatString ==
    /\ pc = "ready" /\ arg.fn = "formatString"
    /\ ret' = formatString(arg.input, arg.toUpper)
    /\ pc' = "done"
    /\ UNCHANGED <<arg, heap>>
    /\ UNCHANGED asyncVars

CallFilterByRating ==
    /\ pc = "ready" /\ arg.fn = "filterByRating"
    /\ heap' = filterByRating(heap, 1)
    /\ ret' = Len(heap')
    /\ pc' = "done"
    /\ UNCHANGED arg
    /\ UNCHANGED asyncVars

CallConcatenateArrays ==
    /\ pc = "ready" /\ arg.fn = "concatenateArrays"
    /\ ret' = concatenateArrays(arg.arrays)
    /\ pc' = "done"
    /\ UNCHANGED <<arg, heap>>
    /\ UNCHANGED asyncVars

CallGetMostExpensiveProduct ==
    /\ pc = "ready" /\ arg.fn = "getMostExpensiveProduct"
    /\ ret' = getMostExpensiveProduct(arg.products)
    /\ pc' = "done"
    /\ UNCHANGED <<arg, heap>>
    /\ UNCHANGED asyncVars

CallGetDayType ==
    /\ pc = "ready" /\ arg.fn = "getDayType"
    /\ ret' = getDayType(arg.day)
    /\ pc' = "done"
    /\ UNCHANGED <<arg, heap>>
    /\ UNCHANGED asyncVars

InitSyncVars ==
    /\ pc = "ready"
    /\ arg \in SyncInputs
    /\ heap = HeapOf(arg)
    /\ ret = NoValue

SyncOff ==
    /\ pc = "off"
    /\ arg = NoValue
    /\ heap = <<>>
    /\ ret = NoValue

NextSync ==
    \/ CallFormatString
    \/ CallFilterByRating
    \/ CallConcatenateArrays
    \/ CallGetMostExpensiveProduct
    \/ CallGetDayType

----
\* squareAsync (src/main.ts:94-104) on the event loop.
\* A call may be made at any point between two jobs.  Timers run as tasks, so one
\* fires only when the microtask queue is empty; the order in which the timers of
\* different calls fire is left open (every order is explored).

Calls == 1..MaxCalls
Inputs == (0 - MaxAbs)..MaxAbs

NegativeMessage == "Negative number not allowed"

Pending == [state |-> "pending", value |-> 0, reason |-> ""]

\* the resolve function of a promise: the first settlement wins, later calls do nothing
resolvePromise(p, v) ==
    IF p.state = "pending" THEN [state |-> "fulfilled", value |-> v, reason |-> ""] ELSE p

\* the reject function of a promise
rejectPromise(p, r) ==
    IF p.state = "pending" THEN [state |-> "rejected", value |-> 0, reason |-> r] ELSE p

\* the promise a reaction job settles with the outcome of the promise it follows
adopt(p, from) ==
    IF from.state = "fulfilled" THEN resolvePromise(p, from.value)
    ELSE rejectPromise(p, from.reason)

isNegative_belowMinusOne(n) == n < -1

\* the test n < 0
isNegative(n) == n < 0

square_doubled(n) == n + n

\* the value n * n passed to resolve
square(n) == n * n

Executor_noElse(n) == [rejects |-> isNegative(n), schedules |-> TRUE]

\* the executor's two branches: reject, or schedule the timer
Executor(n) ==
    IF isNegative(n) THEN [rejects |-> TRUE, schedules |-> FALSE]
    ELSE [rejects |-> FALSE, schedules |-> TRUE]

AsyncIdle ==
    /\ phase = [i \in Calls |-> "idle"]
    /\ nArg = [i \in Calls |-> 0]
    /\ threw = [i \in Calls |-> FALSE]
    /\ inner = [i \in Calls |-> Pending]
    /\ outer = [i \in Calls |-> Pending]
    /\ reaction = [i \in Calls |-> FALSE]
    /\ timer = [i \in Calls |-> "none"]
    /\ nTimers = [i \in Calls |-> 0]
    /\ microtasks = <<>>

\* One call squareAsync(n): the async function creates its promise (outer), runs the
\* body, in which `new Promise` runs the executor synchronously, and resolves outer
\* with the promise returned, which queues the job that will follow that promise.
squareAsync(i, n) ==
    /\ phase[i] = "idle"
    /\ phase' = [phase EXCEPT ![i] = "returned"]
    /\ nArg' = [nArg EXCEPT ![i] = n]
    /\ threw' = [threw EXCEPT ![i] = FALSE]
    /\ inner' = [inner EXCEPT ![i] =
                    IF Executor(n).rejects THEN rejectPromise(@, NegativeMessage) ELSE @]
    /\ timer' = [timer EXCEPT ![i] = IF Executor(n).schedules THEN "scheduled" ELSE @]
    /\ nTimers' = [nTimers EXCEPT ![i] = IF Executor(n).schedules THEN @ + 1 ELSE @]
    /\ microtasks' = Append(microtasks, [job |-> "resolveThenable", call |-> i])
    /\ UNCHANGED <<outer, reaction>>
    /\ UNCHANGED syncVars

\* The job queued by resolving outer with a promise: inner.then(resolveOuter, rejectOuter)
\* registers the reaction on a pending promise, or queues it on a settled one.
ResolveThenableJob(i) ==
    /\ IF inner[i].state = "pending"
       THEN /\ reaction' = [reaction EXCEPT ![i] = TRUE]
            /\ microtasks' = Tail(microtasks)
       ELSE /\ microtasks' = Append(Tail(microtasks), [job |-> "reaction", call |-> i])
            /\ UNCHANGED reaction
    /\ UNCHANGED <<phase, nArg, threw, inner, outer, timer, nTimers>>

\* The reaction job: outer takes the outcome of inner.
ReactionJob(i) ==
    /\ outer' = [outer EXCEPT ![i] = adopt(@, inner[i])]
    /\ microtasks' = Tail(microtasks)
    /\ UNCHANGED <<phase, nArg, threw, inner, reaction, timer, nTimers>>

\* The event loop runs the oldest microtask.
RunMicrotask ==
    /\ microtasks # <<>>
    /\ \/ /\ Head(microtasks).job = "resolveThenable"
          /\ ResolveThenableJob(Head(microtasks).call)
       \/ /\ Head(microtasks).job = "reaction"
          /\ ReactionJob(Head(microtasks).call)
    /\ UNCHANGED syncVars

TimerFire_sharedResolve(i) ==
    /\ timer[i] = "scheduled"
    /\ microtasks = <<>>
    /\ timer' = [timer EXCEPT ![i] = "fired"]
    /\ inner' = [j \in Calls |->
                    IF phase[j] = "returned" THEN resolvePromise(inner[j], square(nArg[i]))
                    ELSE inner[j]]
    /\ microtasks' = IF reaction[i] THEN <<[job |-> "reaction", call |-> i]>> ELSE <<>>
    /\ UNCHANGED <<phase, nArg, threw, outer, reaction, nTimers>>
    /\ UNCHANGED syncVars

\* The timer of call i expires (a task: it runs only when no microtask is queued)
\* and its callback calls resolve(n * n).
TimerFire(i) ==
    /\ timer[i] = "scheduled"
    /\ microtasks = <<>>
    /\ timer' = [timer EXCEPT ![i] = "fired"]
    /\ inner' = [inner EXCEPT ![i] = resolvePromise(@, square(nArg[i]))]
    /\ microtasks' = IF reaction[i] /\ inner[i].state = "pending"
                     THEN <<[job |-> "reaction", call |-> i]>> ELSE <<>>
    /\ UNCHANGED <<phase, nArg, threw, outer, reaction, nTimers>>
    /\ UNCHANGED syncVars

NextAsync ==
    \/ \E i \in Calls, n \in Inputs : squareAsync(i, n)
    \/ RunMicrotask
    \/ \E i \in Calls : TimerFire(i)

----
\* Specifications.

InitSync == InitSyncVars /\ AsyncIdle
InitAsync == SyncOff /\ AsyncIdle

\* the synchronous helpers, each called once on every input
SpecSync == InitSync /\ [][NextSync]_vars

\* squareAsync calls on the event loop
SpecAsync == InitAsync /\ [][NextAsync]_vars

\* the event loop keeps running queued microtasks
LiveMicrotasks == SpecAsync /\ WF_vars(RunMicrotask)

\* the event loop keeps running queued microtasks, and every scheduled timer expires
LiveAsync ==
    /\ SpecAsync
    /\ WF_vars(RunMicrotask)
    /\ \A i \in Calls : WF_vars(TimerFire(i))

----
\* Properties of the synchronous helpers (checked under SpecSync).

Called(fn) == pc = "done" /\ arg.fn = fn

\* the indices of the products whose price is the maximum price
MaxIndices(ps) == {i \in 1..Len(ps) : \A j \in 1..Len(ps) : ps[j].price <= ps[i].price}
MinOf(S) == CHOOSE m \in S : \A x \in S : m <= x
MaxOf(S) == CHOOSE m \in S : \A x \in S : x <= m

\* C1 as stated: for a non-empty array getMostExpensiveProduct returns the element of
\* lowest index among those with the maximum price.
C1_EarliestMaximumReturned ==
    (Called("getMostExpensiveProduct") /\ Len(arg.products) > 0)
        => ret = ref(MinOf(MaxIndices(arg.products)))

\* C1 amended: for a non-empty array getMostExpensiveProduct returns the element of
\* highest index among those with the maximum price (on a tie the later element wins).
C1_LatestMaximumReturned ==
    (Called("getMostExpensiveProduct") /\ Len(arg.products) > 0)
        => ret = ref(MaxOf(MaxIndices(arg.products)))

\* prices [10, 20, 20] named A, B, C: the call returned the third element, C
C1_TieWitness ==
    /\ Called("getMostExpensiveProduct")
    /\ arg.products = <<[name |-> "A", price |-> 10], [name |-> "B", price |-> 20],
                        [name |-> "C", price |-> 20]>>
    /\ ret = ref(3)

\* C2: getMostExpensiveProduct returns null exactly for the empty array; otherwise it
\* returns an element of the array whose price is at least every element's price.
C2_NullIffEmptyElseMaximal ==
    Called("getMostExpensiveProduct") =>
        /\ (ret = null) <=> (Len(arg.products) = 0)
        /\ Len(arg.products) > 0 =>
              /\ ret.kind = "ref"
              /\ ret.idx \in 1..Len(arg.products)
              /\ \A j \in 1..Len(arg.products) :
                    arg.products[ret.idx].price >= arg.products[j].price

\* a call on three products with both prices present returned an element
C2_Witness ==
    /\ Called("getMostExpensiveProduct")
    /\ Len(arg.products) = 3
    /\ {arg.products[j].price : j \in 1..3} = Prices
    /\ ret.kind = "ref"
    /\ arg.products[ret.idx].price = 20

\* the indices of the items with rating >= 4, and the k-th smallest of them
KeptIndices(items) == {i \in 1..Len(items) : items[i].rating >= 4}
KthOf(S, k) == CHOOSE i \in S : Cardinality({j \in S : j < i}) = k - 1

\* C5: filterByRating returns a new array holding exactly the items with rating >= 4,
\* in their input order and multiplicity, and leaves the argument array as it was.
C5_FilterKeepsRatingAtLeastFour ==
    Called("filterByRating") =>
        /\ ret \in 1..Len(heap) /\ ret # 1
        /\ heap[1] = arg.items
        /\ Len(heap[ret]) = Cardinality(KeptIndices(arg.items))
        /\ \A k \in 1..Len(heap[ret]) :
              heap[ret][k] = arg.items[KthOf(KeptIndices(arg.items), k)]

\* [{A,3},{B,4}] was filtered to [{B,4}]
C5_Witness ==
    /\ Called("filterByRating")
    /\ arg.items = <<[title |-> "A", rating |-> 3], [title |-> "B", rating |-> 4]>>
    /\ heap[ret] = <<[title |-> "B", rating |-> 4]>>

\* the total length of the first a arrays
RECURSIVE LenSum(_, _)
LenSum(arrays, a) == IF a = 0 THEN 0 ELSE LenSum(arrays, a - 1) + Len(arrays[a])

\* C6: concatenateArrays returns a sequence whose length is the sum of the argument
\* lengths, holding the first argument's elements in order, then the second's, and so
\* on; with no argument it returns the empty sequence.
C6_ConcatenationInArgumentOrder ==
    Called("concatenateArrays") =>
        /\ Len(ret) = LenSum(arg.arrays, Len(arg.arrays))
        /\ \A a \in 1..Len(arg.arrays) : \A q \in 1..Len(arg.arrays[a]) :
              ret[LenSum(arg.arrays, a - 1) + q] = arg.arrays[a][q]
        /\ Len(arg.arrays) = 0 => ret = <<>>

\* concatenateArrays([1,2],[],[2,1]) returned [1,2,2,1]
C6_Witness ==
    /\ Called("concatenateArrays")
    /\ arg.arrays = <<<<1, 2>>, <<>>, <<2, 1>>>>
    /\ ret = <<1, 2, 2, 1>>

\* C7: for the seven Day values getDayType returns "Weekday" exactly for Monday to
\* Friday and "Weekend" exactly for Saturday and Sunday, and never "Invalid day".
C7_DayTypePartition ==
    (Called("getDayType") /\ arg.day \in Day) =>
        /\ (ret = "Weekday") <=> (arg.day \in {Monday, Tuesday, Wednesday, Thursday, Friday})
        /\ (ret = "Weekend") <=> (arg.day \in {Saturday, Sunday})
        /\ ret # "Invalid day"

\* getDayType(Friday) returned "Weekday"
C7_Witness == Called("getDayType") /\ arg.day = Friday /\ ret = "Weekday"

\* C9: formatString(s, true) is the upper case of s; with the flag false or absent it
\* is the lower case of s, the absent flag giving what false gives.
C9_CaseByFlag ==
    Called("formatString") =>
        /\ arg.toUpper = "true" => ret = toUpperCase(arg.input)
        /\ arg.toUpper \in {"false", "undefined"} => ret = toLowerCase(arg.input)
        /\ formatString(arg.input, "undefined") = formatString(arg.input, "false")

\* formatString("aB") with the flag absent returned "ab"
C9_Witness ==
    /\ Called("formatString")
    /\ arg.input = <<"a", "B">>
    /\ arg.toUpper = "undefined"
    /\ ret = <<"a", "b">>

----
\* Properties of squareAsync (checked under SpecAsync, LiveMicrotasks and LiveAsync).

Returned(i) == phase[i] = "returned"
Fulfilled(v) == [state |-> "fulfilled", value |-> v, reason |-> ""]
Rejected(r) == [state |-> "rejected", value |-> 0, reason |-> r]

\* C3: a call with n >= 0 has its promise pending until its timer has fired, is never
\* rejected, and is eventually fulfilled with n * n.
C3_NonNegativeFulfilledAfterTimer ==
    \A i \in Calls :
        /\ []((Returned(i) /\ nArg[i] >= 0) =>
                /\ inner[i].state # "rejected" /\ outer[i].state # "rejected"
                /\ timer[i] # "fired" =>
                      inner[i].state = "pending" /\ outer[i].state = "pending"
                /\ outer[i].state = "fulfilled" => outer[i] = Fulfilled(nArg[i] * nArg[i]))
        /\ (Returned(i) /\ nArg[i] >= 0) ~> (outer[i] = Fulfilled(nArg[i] * nArg[i]))

\* squareAsync(1) was fulfilled with 1 after its timer fired
C3_Witness ==
    \E i \in Calls :
        Returned(i) /\ nArg[i] = 1 /\ timer[i] = "fired" /\ outer[i] = Fulfilled(1)

\* C4: a call with n < 0 throws nothing to its caller, schedules no timer, has its
\* promise rejected with "Negative number not allowed" by the time it returns, and the
\* promise it returned is never fulfilled and is rejected with that error by microtasks
\* alone.
C4_NegativeRejectedWithoutTimer ==
    \A i \in Calls :
        /\ []((Returned(i) /\ nArg[i] < 0) =>
                /\ ~threw[i]
                /\ nTimers[i] = 0 /\ timer[i] = "none"
                /\ inner[i] = Rejected("Negative number not allowed")
                /\ outer[i].state # "fulfilled"
                /\ outer[i].state = "rejected" =>
                      outer[i] = Rejected("Negative number not allowed"))
        /\ (Returned(i) /\ nArg[i] < 0) ~> (outer[i] = Rejected("Negative number not allowed"))

\* squareAsync(-1) was rejected while no timer of any call had fired
C4_Witness ==
    /\ \E i \in Calls :
          Returned(i) /\ nArg[i] = -1 /\ outer[i] = Rejected("Negative number not allowed")
    /\ \A j \in Calls : timer[j] # "fired"

\* the outcome the argument alone determines
OutcomeOf(n) == IF n >= 0 THEN Fulfilled(n * n) ELSE Rejected("Negative number not allowed")

\* C8: every settled call has the outcome its own argument determines, and a step
\* that changes one call's promises changes no other call's promises.
C8_CallsIndependent ==
    /\ [](\A i \in Calls : outer[i].state # "pending" => outer[i] = OutcomeOf(nArg[i]))
    /\ [][\A i \in Calls :
            (outer'[i] # outer[i] \/ inner'[i] # inner[i]) =>
                \A j \in Calls \ {i} : outer'[j] = outer[j] /\ inner'[j] = inner[j]]_vars

\* two calls in flight together: the later call's timer fired first and fulfilled it
\* while the earlier call is still waiting for its timer
C8_Witness ==
    /\ nArg[2] = 2 /\ timer[2] = "fired" /\ outer[2] = Fulfilled(4)
    /\ nArg[1] = 1 /\ timer[1] = "scheduled" /\ outer[1].state = "pending"

PromiseStates == {"pending", "fulfilled", "rejected"}

\* C10: each promise is pending, fulfilled or rejected, a settled promise never
\* changes again, and each call ran exactly one branch of the executor: it rejected
\* and scheduled no timer, or it scheduled exactly one timer and did not reject.
C10_SettlesOnceOneBranch ==
    /\ [](\A i \in Calls :
            /\ inner[i].state \in PromiseStates /\ outer[i].state \in PromiseStates
            /\ nTimers[i] <= 1
            /\ (timer[i] # "none") <=> (nTimers[i] = 1)
            /\ Returned(i) =>
                  \/ nTimers[i] = 0 /\ inner[i].state = "rejected"
                  \/ nTimers[i] = 1 /\ inner[i].state # "rejected"
            /\ outer[i].state = "fulfilled" => timer[i] = "fired")
    /\ [][\A i \in Calls :
            /\ inner[i].state # "pending" => inner'[i] = inner[i]
            /\ outer[i].state # "pending" => outer'[i] = outer[i]]_vars

\* one call rejected without a timer, another fulfilled after its one timer
C10_Witness ==
    \E i, j \in Calls :
        /\ outer[i].state = "rejected" /\ nTimers[i] = 0
        /\ outer[j].state = "fulfilled" /\ nTimers[j] = 1 /\ timer[j] = "fired"

====
